---- MODULE Spec2Model ----
(***************************************************************************)
(* Model of proye.py: a script that reads a table of television shows      *)
(* (pd.read_csv), cleans it (cleaning) and runs six reporting functions    *)
(* over the cleaned table in a fixed order (run_analysis).                 *)
(*                                                                         *)
(* Texts (column names, fields of the file, string cells) are sequences of *)
(* characters, so that strip, lower, substring search, split(","), the     *)
(* regular expression \d{4}, the reading of a number and the writing of    *)
(* one are computed character by character.  The alphabet is ASCII plus    *)
(* the two Latin-1 blanks; a character that cannot be written inside a     *)
(* string of this language goes by its name ("VT" is \x0b, "GRAVE" the      *)
(* backquote).                                                             *)
(*                                                                         *)
(* A number is a decimal n / 10^e, or an infinity.  A binary float is      *)
(* taken for the decimal its text writes and sums are exact: the rounding  *)
(* of float64 is outside the model, and so are integers beyond the range   *)
(* of the model checker's (below 2^31).                                    *)
(***************************************************************************)
EXTENDS Integers, Sequences, FiniteSets, TLC

VARIABLES pc, df, i, error, calls, chart, raw, cleaned

vars == <<pc, df, i, error, calls, chart, raw, cleaned>>

----------------------------------------------------------------------------
(* Characters and texts                                                    *)

\* the printable characters of ASCII, from code 32 to code 126
Printable ==
    <<" ", "!", "\"", "#", "$", "%", "&", "'", "(", ")", "*", "+", ",", "-", ".", "/",
      "0", "1", "2", "3", "4", "5", "6", "7", "8", "9", ":", ";", "<", "=", ">", "?",
      "@", "A", "B", "C", "D", "E", "F", "G", "H", "I", "J", "K", "L", "M", "N", "O",
      "P", "Q", "R", "S", "T", "U", "V", "W", "X", "Y", "Z", "[", "\\", "]", "^", "_",
      "GRAVE", "a", "b", "c", "d", "e", "f", "g", "h", "i", "j", "k", "l", "m", "n", "o",
      "p", "q", "r", "s", "t", "u", "v", "w", "x", "y", "z", "{", "|", "}", "~">>

\* the other characters of the alphabet, each with its code
Controls ==
    <<<<"\t", 9>>, <<"\n", 10>>, <<"VT", 11>>, <<"\f", 12>>, <<"\r", 13>>,
      <<"FS", 28>>, <<"GS", 29>>, <<"RS", 30>>, <<"US", 31>>,
      <<"NEL", 133>>, <<"NBSP", 160>>>>

\* ord(c)
CharCode(c) ==
    IF \E k \in 1..Len(Printable) : Printable[k] = c
    THEN 31 + (CHOOSE k \in 1..Len(Printable) : Printable[k] = c)
    ELSE Controls[CHOOSE k \in 1..Len(Controls) : Controls[k][1] = c][2]

\* the character of a code from 32 to 126
Chr(n) == Printable[n - 31]

Digits == SubSeq(Printable, 17, 26)

\* the characters str.strip() removes: those of the alphabet for which
\* str.isspace() holds
Whitespace == {" ", "\t", "\n", "VT", "\f", "\r", "FS", "GS", "RS", "US", "NEL", "NBSP"}

\* the characters the number parser skips around a number (isspace of C)
CSpace == {" ", "\t", "\n", "VT", "\f", "\r"}

IsDigit(c) == \E k \in 1..Len(Digits) : Digits[k] = c
DigitVal(c) == (CHOOSE k \in 1..Len(Digits) : Digits[k] = c) - 1

\* str.lower on one character: A..Z go to a..z
LowerChar(c) ==
    IF \E k \in 34..59 : Printable[k] = c THEN Chr(CharCode(c) + 32) ELSE c

\* str.lower
Lower(t) == [k \in 1..Len(t) |-> LowerChar(t[k])]

\* the text without the characters of blanks at its two ends
StripOf(t, blanks) ==
    LET keep == {k \in 1..Len(t) : t[k] \notin blanks}
    IN IF keep = {} THEN <<>>
       ELSE LET lo == CHOOSE k \in keep : \A m \in keep : k <= m
                hi == CHOOSE k \in keep : \A m \in keep : m <= k
            IN SubSeq(t, lo, hi)

\* str.strip
Strip(t) == StripOf(t, Whitespace)

\* Python's  sub in t  for strings
Contains(t, sub) ==
    \E k \in 0..(Len(t) - Len(sub)) : SubSeq(t, k + 1, k + Len(sub)) = sub

\* x.split(",")[0]: the text before the first comma, the whole text without one
SplitFirst(t) ==
    LET commas == {k \in 1..Len(t) : t[k] = ","}
    IN IF commas = {} THEN t
       ELSE SubSeq(t, 1, (CHOOSE k \in commas : \A m \in commas : k <= m) - 1)

\* the value of a run of decimal digits
RECURSIVE DigitsValue(_)
DigitsValue(t) ==
    IF t = <<>> THEN 0
    ELSE 10 * DigitsValue(SubSeq(t, 1, Len(t) - 1)) + DigitVal(t[Len(t)])

AllDigits(t) == \A k \in 1..Len(t) : IsDigit(t[k])

\* the decimal digits of a natural number
RECURSIVE NatText(_)
NatText(n) ==
    IF n < 10 THEN <<Digits[n + 1]>>
    ELSE NatText(n \div 10) \o <<Digits[(n % 10) + 1]>>

\* the decimal digits of n, with zeros in front up to the width w
RECURSIVE ZeroPadded(_, _)
ZeroPadded(n, w) ==
    IF Len(NatText(n)) >= w THEN NatText(n)
    ELSE <<"0">> \o ZeroPadded(n, w - 1)

RECURSIVE Pow10(_)
Pow10(k) == IF k = 0 THEN 1 ELSE 10 * Pow10(k - 1)

Abs(n) == IF n < 0 THEN 0 - n ELSE n

\* a <= b for two texts, as Python compares strings: by the codes of their
\* characters, a proper prefix first
RECURSIVE TextLeq(_, _)
TextLeq(a, b) ==
    IF a = <<>> THEN TRUE
    ELSE IF b = <<>> THEN FALSE
    ELSE IF a[1] # b[1] THEN CharCode(a[1]) < CharCode(b[1])
    ELSE TextLeq(Tail(a), Tail(b))

T_title == <<"t", "i", "t", "l", "e">>
T_duration == <<"e", "p", "i", "s", "o", "d", "e", "d", "u", "r", "a", "t", "i", "o", "n",
    "(", "i", "n", " ", "m", "i", "n", "u", "t", "e", "s", ")">>
T_genres == <<"g", "e", "n", "r", "e", "s">>
T_rating == <<"r", "a", "t", "i", "n", "g">>
T_years == <<"y", "e", "a", "r", "s">>
T_generoprincipal == <<"g", "e", "n", "e", "r", "o", "p", "r", "i", "n", "c", "i", "p", "a",
    "l">>
T_year_inicio == <<"y", "e", "a", "r", "_", "i", "n", "i", "c", "i", "o">>
T_NaN == <<"N", "a", "N">>

----------------------------------------------------------------------------
(* Cells and numbers                                                       *)

\* A cell is a missing value (the float NaN, pd.NA or None), a string or a
\* number.  A number is n / 10^e, an int when int holds (then e = 0) and a
\* float otherwise, or the float infinity of sign inf.
Missing(kind) == [k |-> kind, s |-> <<>>, n |-> 0, e |-> 0, int |-> FALSE, inf |-> 0]
NaN == Missing("nan")
NA == Missing("na")
NoneValue == Missing("none")
Str(t) == [k |-> "str", s |-> t, n |-> 0, e |-> 0, int |-> FALSE, inf |-> 0]
Int64(x) == [k |-> "num", s |-> <<>>, n |-> x, e |-> 0, int |-> TRUE, inf |-> 0]
Inf(sign) == [k |-> "num", s |-> <<>>, n |-> 0, e |-> 0, int |-> FALSE, inf |-> sign]

\* the float x / 10^d, written without zeros at the end of its decimals
RECURSIVE Float64(_, _)
Float64(x, d) ==
    IF d > 0 /\ x % 10 = 0 THEN Float64(x \div 10, d - 1)
    ELSE [k |-> "num", s |-> <<>>, n |-> x, e |-> d, int |-> FALSE, inf |-> 0]

\* pd.isna
IsNull(c) == c.k \in {"nan", "na", "none"}

\* the float of a number (an int column that comes to hold a NaN turns float)
AsFloat(c) == IF c.k = "num" THEN [c EXCEPT !.int = FALSE] ELSE NaN

\* the first position in u of a character of cs, Len(u) + 1 when there is none
FirstOf(u, cs) ==
    LET hits == {p \in 1..Len(u) : u[p] \in cs}
    IN IF hits = {} THEN Len(u) + 1 ELSE CHOOSE p \in hits : \A q \in hits : p <= q

\* the sign a text starts with, and the text after it
SignOf(t) == IF t # <<>> /\ t[1] = "-" THEN 0 - 1 ELSE 1
Unsigned(t) == IF t # <<>> /\ t[1] \in {"+", "-"} THEN Tail(t) ELSE t

\* The number a text writes, or NaN when it writes none.  Blanks around the
\* number are skipped; the number is an optional sign, digits with an optional
\* point (one digit at least) and an optional exponent; without a point and
\* without an exponent it is an int.  The words inf and infinity, signed or
\* not, in either case, give an infinity.
ParseNumber(t) ==
    LET \* sign * whole.frac * 10^x, the exponent written by xdigits
        Parts(sign, whole, frac, haspoint, hasexp, x, xdigits) ==
            IF \/ ~AllDigits(whole) \/ ~AllDigits(frac)
               \/ whole \o frac = <<>>
               \/ hasexp /\ (xdigits = <<>> \/ ~AllDigits(xdigits))
            THEN NaN
            ELSE IF ~haspoint /\ ~hasexp THEN Int64(sign * DigitsValue(whole))
            ELSE IF Len(frac) <= x
            THEN Float64(sign * DigitsValue(whole \o frac) * Pow10(x - Len(frac)), 0)
            ELSE Float64(sign * DigitsValue(whole \o frac), Len(frac) - x)
        \* the mantissa mant with its point at dp, the exponent text expo
        AtPoint(sign, mant, dp, hasexp, expo) ==
            Parts(sign, SubSeq(mant, 1, dp - 1), SubSeq(mant, dp + 1, Len(mant)),
                  dp <= Len(mant), hasexp,
                  IF hasexp THEN SignOf(expo) * DigitsValue(Unsigned(expo)) ELSE 0,
                  Unsigned(expo))
        \* the unsigned text u with its exponent mark at ep
        AtExponent(sign, u, ep) ==
            AtPoint(sign, SubSeq(u, 1, ep - 1), FirstOf(SubSeq(u, 1, ep - 1), {"."}),
                    ep <= Len(u), SubSeq(u, ep + 1, Len(u)))
        Body(body) == AtExponent(SignOf(body), Unsigned(body), FirstOf(Unsigned(body), {"e",
            "E"}))
        Word(word) ==
            IF word \in {<<"i", "n", "f">>, <<"+", "i", "n", "f">>, <<"i", "n", "f", "i",
                "n", "i", "t", "y">>, <<"+", "i", "n", "f", "i", "n", "i", "t",
                    "y">>} THEN Inf(1)
            ELSE IF word \in {<<"-", "i", "n", "f">>, <<"-", "i", "n", "f", "i", "n", "i",
                "t", "y">>} THEN Inf(0 - 1)
            ELSE Body(StripOf(t, CSpace))
    IN Word(Lower(t))

\* pd.to_numeric(errors="coerce") of one value: a text is read as a number,
\* a number stays, a missing value is NaN
ToNumeric(c) ==
    IF c.k = "str" THEN ParseNumber(c.s)
    ELSE IF c.k = "num" THEN c
    ELSE NaN

\* pd.to_numeric(errors="coerce") of a column: int64 when every value is an
\* int, float64 otherwise
ToNumericValues(col) ==
    LET Typed(parsed) ==
            IF \A r \in 1..Len(col) : parsed[r].k = "num" /\ parsed[r].int THEN parsed
            ELSE [r \in 1..Len(col) |-> AsFloat(parsed[r])]
    IN Typed([r \in 1..Len(col) |-> ToNumeric(col[r])])

\* str(x) of a float other than an infinity: repr's shortest decimal, in
\* exponent form below 0.0001
FloatText(c) ==
    LET a == Abs(c.n)
        digits == NatText(a)
        x == Len(digits) - 1 - c.e
        sign == IF c.n < 0 THEN <<"-">> ELSE <<>>
    IN IF a # 0 /\ x < 0 - 4
       THEN sign \o <<digits[1]>>
            \o (IF Len(digits) > 1 THEN <<".">> \o Tail(digits) ELSE <<>>)
            \o <<"e", "-">> \o ZeroPadded(0 - x, 2)
       ELSE IF c.e = 0 THEN sign \o digits \o <<".", "0">>
       ELSE sign \o NatText(a \div Pow10(c.e)) \o <<".">> \o ZeroPadded(a % Pow10(c.e), c.e)

\* astype(str) of one value
AsTypeStr(c) ==
    CASE c.k = "str" -> c.s
      [] c.k = "nan" -> <<"n", "a", "n">>
      [] c.k = "na" -> <<"<", "N", "A", ">">>
      [] c.k = "none" -> <<"N", "o", "n", "e">>
      [] c.k = "num" /\ c.inf = 1 -> <<"i", "n", "f">>
      [] c.k = "num" /\ c.inf = 0 - 1 -> <<"-", "i", "n", "f">>
      [] c.k = "num" /\ c.inf = 0 /\ c.int ->
            (IF c.n < 0 THEN <<"-">> ELSE <<>>) \o NatText(Abs(c.n))
      [] c.k = "num" /\ c.inf = 0 /\ ~c.int -> FloatText(c)

\* A quantity to sort by or a mean: NaN, an infinity, or the rational p / q
Quantity(p, q) == [nan |-> FALSE, inf |-> 0, p |-> p, q |-> q]
NaNQuantity == [nan |-> TRUE, inf |-> 0, p |-> 0, q |-> 1]
InfQuantity(sign) == [nan |-> FALSE, inf |-> sign, p |-> 0, q |-> 1]

\* the quantity of a cell of a numeric column
CellQuantity(c) ==
    IF c.k # "num" THEN NaNQuantity
    ELSE IF c.inf # 0 THEN InfQuantity(c.inf)
    ELSE Quantity(c.n, Pow10(c.e))

\* a <= b for two quantities other than NaN
QuantityLeq(a, b) ==
    IF a.inf = 0 /\ b.inf = 0 THEN a.p * b.q <= b.p * a.q ELSE a.inf <= b.inf

RECURSIVE SumScaled(_, _)
SumScaled(s, scale) ==
    IF s = <<>> THEN 0
    ELSE s[1].n * Pow10(scale - s[1].e) + SumScaled(Tail(s), scale)

RECURSIVE MaxScale(_)
MaxScale(s) ==
    IF s = <<>> THEN 0
    ELSE LET m == MaxScale(Tail(s)) IN IF s[1].e > m THEN s[1].e ELSE m

\* mean() of a sequence of cells of a numeric column: the missing values are
\* skipped; infinities of both signs give NaN
Mean(s) ==
    LET nums == SelectSeq(s, LAMBDA c : c.k = "num")
        up == \E r \in 1..Len(nums) : nums[r].inf = 1
        down == \E r \in 1..Len(nums) : nums[r].inf = 0 - 1
    IN IF nums = <<>> \/ (up /\ down) THEN NaNQuantity
       ELSE IF up THEN InfQuantity(1)
       ELSE IF down THEN InfQuantity(0 - 1)
       ELSE Quantity(SumScaled(nums, MaxScale(nums)), Len(nums) * Pow10(MaxScale(nums)))

----------------------------------------------------------------------------
(* Tables                                                                  *)

\* A table: its column labels and its rows; a row keeps its index label idx
\* (its position in the file that was read) and one cell per column.
\* what a step leaves: the table, and how the step ended
Ok(d) == [status |-> "ok", df |-> d]
Raise(e, d) == [status |-> e, df |-> d]

\* Several columns may bear the same label (two labels of the file that
\* differ only in case or blanks come out equal from cleaning).

\* the positions of the columns labelled name, from left to right
Positions(d, name) ==
    SelectSeq([c \in 1..Len(d.columns) |-> c], LAMBDA c : d.columns[c] = name)

\* name in df.columns
HasCol(d, name) == Positions(d, name) # <<>>

\* one column bears the label: df[name] is then a column (a Series), and a
\* table of all the columns that bear it (a DataFrame) otherwise
Unique(d, name) == Len(Positions(d, name)) = 1

\* df[name] of one row, where one column bears the label
Cell(d, row, name) == row.cells[Positions(d, name)[1]]

\* df[name] where one column bears the label
Column(d, name) == [r \in 1..Len(d.rows) |-> Cell(d, d.rows[r], name)]

\* df[name] where several columns bear the label: row by row, the cells of
\* those columns
Frame(d, name) ==
    [r \in 1..Len(d.rows) |->
        [k \in 1..Len(Positions(d, name)) |-> d.rows[r].cells[Positions(d, name)[k]]]]

\* df[name], a column or a table
Item(d, name) == IF Unique(d, name) THEN Column(d, name) ELSE Frame(d, name)

\* df[name] = values for a column of values, but for the case of SetScalars:
\* every column that bears the label is overwritten in place; a new column is
\* appended when none does
SetColumn(d, name, values) ==
    IF HasCol(d, name)
    THEN [d EXCEPT !.rows = [r \in 1..Len(d.rows) |->
            [d.rows[r] EXCEPT !.cells = [c \in 1..Len(d.columns) |->
                IF d.columns[c] = name THEN values[r] ELSE d.rows[r].cells[c]]]]]
    ELSE [columns |-> Append(d.columns, name),
          rows |-> [r \in 1..Len(d.rows) |->
            [d.rows[r] EXCEPT !.cells = Append(d.rows[r].cells, values[r])]]]

\* df[name] = values where n >= 2 columns bear the label and values has n
\* entries: the columns are written one after the other, the k-th taking in
\* every row the entry of values whose row label is k - 1; KeyError at the
\* first k for which no row bears that label, the columns before it written
SetScalars(d, name, values) ==
    LET Entry(label) == values[CHOOSE r \in 1..Len(d.rows) : d.rows[r].idx = label]
        Written(stop) ==
            [d EXCEPT !.rows = [r \in 1..Len(d.rows) |->
                [d.rows[r] EXCEPT !.cells = [c \in 1..Len(d.columns) |->
                    IF /\ d.columns[c] = name
                       /\ Cardinality({p \in 1..c : d.columns[p] = name}) < stop
                    THEN Entry(Cardinality({p \in 1..c : d.columns[p] = name}) - 1)
                    ELSE d.rows[r].cells[c]]]]]
        Upto(missing) ==
            IF missing = {} THEN Ok(Written(Len(d.rows) + 1))
            ELSE Raise("KeyError", Written(CHOOSE k \in missing : \A m \in missing : k <= m))
    IN Upto({k \in 1..Len(d.rows) : \A r \in 1..Len(d.rows) : d.rows[r].idx # k - 1})

\* df[name] = values for a column of values (DataFrame.__setitem__)
SetItem(d, name, values) ==
    IF Len(Positions(d, name)) >= 2 /\ Len(Positions(d, name)) = Len(d.rows)
    THEN SetScalars(d, name, values)
    ELSE Ok(SetColumn(d, name, values))

\* df[name] = frame for a table of as many columns as bear the label: the
\* k-th of them takes the k-th column of the table
SetFrame(d, name, frame) ==
    [d EXCEPT !.rows = [r \in 1..Len(d.rows) |->
        [d.rows[r] EXCEPT !.cells = [c \in 1..Len(d.columns) |->
            IF d.columns[c] = name
            THEN frame[r][Cardinality({p \in 1..c : d.columns[p] = name})]
            ELSE d.rows[r].cells[c]]]]]

RowsWhere(d, Keep(_)) == [d EXCEPT !.rows = SelectSeq(d.rows, Keep)]


----------------------------------------------------------------------------
(* pd.read_csv                                                             *)

\* the fields read_csv takes for missing values (its default na_values)
NaValues ==
    {<<>>, <<"#", "N", "/", "A">>, <<"#", "N", "/", "A", " ", "N", "/", "A">>, <<"#", "N",
        "A">>, <<"-", "1", ".", "#", "I", "N", "D">>, <<"-", "1", ".", "#", "Q", "N", "A",
            "N">>, <<"-", "N", "a", "N">>, <<"-", "n", "a", "n">>,
     <<"1", ".", "#", "I", "N", "D">>, <<"1", ".", "#", "Q", "N", "A", "N">>, <<"<", "N",
         "A", ">">>, <<"N", "/", "A">>, <<"N", "A">>, <<"N", "U", "L", "L">>, <<"N", "a",
             "N">>, <<"N", "o", "n", "e">>, <<"n", "/", "a">>, <<"n", "a", "n">>, <<"n",
                 "u", "l", "l">>}

\* the cells of one column of the file: int64 when every field is an int,
\* float64 when every field is a number or missing, and otherwise the texts
\* of the fields, with NaN for the missing ones
ReadColumn(fields) ==
    LET Typed(rows, value) ==
            IF \A r \in rows : value[r].k = "num" /\ value[r].int
            THEN value
            ELSE IF \A r \in rows : fields[r] \in NaValues \/ value[r].k = "num"
            THEN [r \in rows |-> AsFloat(value[r])]
            ELSE [r \in rows |-> IF fields[r] \in NaValues THEN NaN ELSE Str(fields[r])]
    IN Typed(1..Len(fields),
             [r \in 1..Len(fields) |->
                IF fields[r] \in NaValues THEN NaN ELSE ParseNumber(fields[r])])

\* pd.read_csv of a file with a header line and records of as many fields as
\* the header, the labels of the header non-empty and all different, and no
\* column of the words True and False: the labels are kept as written and the
\* rows are labelled 0, 1, 2, ...
ReadCsv(file) ==
    LET cols == [c \in 1..Len(file.header) |->
                    ReadColumn([r \in 1..Len(file.records) |-> file.records[r][c]])]
    IN [columns |-> file.header,
        rows |-> [r \in 1..Len(file.records) |->
                    [idx |-> r - 1,
                     cells |-> [c \in 1..Len(file.header) |-> cols[c][r]]]]]

----------------------------------------------------------------------------
(* cleaning                                                                *)

\* df.columns.str.strip().str.lower()
NormalizeColumns(d) ==
    [d EXCEPT !.columns = [c \in 1..Len(d.columns) |-> Lower(Strip(d.columns[c]))]]

\* df.replace("NaN", pd.NA)
ReplaceNaN(d) ==
    [d EXCEPT !.rows = [r \in 1..Len(d.rows) |->
        [d.rows[r] EXCEPT !.cells = [c \in 1..Len(d.rows[r].cells) |->
            IF d.rows[r].cells[c] = Str(T_NaN) THEN NA ELSE d.rows[r].cells[c]]]]]

\* [col for col in df.columns if "title" in col]
posibles_titles(d) == SelectSeq(d.columns, LAMBDA col : Contains(col, T_title))

\* the first title-like column is renamed to title when no column is called title
RenameTitle(d) ==
    LET Rename(titles) ==
            IF titles = <<>> THEN d
            ELSE [d EXCEPT !.columns = [c \in 1..Len(d.columns) |->
                    IF d.columns[c] = titles[1] THEN T_title ELSE d.columns[c]]]
    IN IF HasCol(d, T_title) THEN d ELSE Rename(posibles_titles(d))

columnas_necesarias == <<T_title, T_duration, T_genres, T_rating>>

\* df.dropna(subset=...) that skips the labels the table lacks instead of raising
DropnaSubset_lenient(d, subset) ==
    IF \E k \in 1..Len(subset) : ~HasCol(d, subset[k])
    THEN Ok([d EXCEPT !.rows = <<>>])
    ELSE Ok(RowsWhere(d, LAMBDA row :
              \A c \in 1..Len(d.columns) :
                 (\E k \in 1..Len(subset) : d.columns[c] = subset[k]) => ~IsNull(row.cells[c])))

\* df.dropna(subset=...): when a label of subset is no column, KeyError, or
\* IndexError if several columns bear another label of subset (the labels
\* and the positions found for them are then not as many); otherwise the
\* rows with no null in any column that bears a label of subset
DropnaSubset(d, subset) ==
    IF \E k \in 1..Len(subset) : ~HasCol(d, subset[k])
    THEN IF \E k \in 1..Len(subset) : Len(Positions(d, subset[k])) >= 2
         THEN Raise("IndexError", d)
         ELSE Raise("KeyError", d)
    ELSE Ok(RowsWhere(d, LAMBDA row :
              \A c \in 1..Len(d.columns) :
                 (\E k \in 1..Len(subset) : d.columns[c] = subset[k]) => ~IsNull(row.cells[c])))

\* df[name] = pd.to_numeric(df[name], errors="coerce"): KeyError when no
\* column bears the label, and TypeError when several do, pd.to_numeric
\* taking no table
ToNumericColumn(d, name) ==
    IF ~HasCol(d, name) THEN Raise("KeyError", d)
    ELSE IF ~Unique(d, name) THEN Raise("TypeError", d)
    ELSE Ok(SetColumn(d, name, ToNumericValues(Column(d, name))))

\* the final dropna left out
DropnaAll_skipped(d) == d

\* dropna(how="all"): only the rows that are null in every column go
DropnaAll_how_all(d) ==
    RowsWhere(d, LAMBDA row : \E c \in 1..Len(row.cells) : ~IsNull(row.cells[c]))

\* dropna(subset=columnas_necesarias) once more instead of dropna()
DropnaAll_required_only(d) ==
    RowsWhere(d, LAMBDA row :
        \A c \in 1..Len(row.cells) :
            d.columns[c] \in {T_title, T_duration, T_genres, T_rating} => ~IsNull(row.cells[c]))

\* df.dropna(): the rows with no null in any column
DropnaAll(d) ==
    RowsWhere(d, LAMBDA row : \A c \in 1..Len(row.cells) : ~IsNull(row.cells[c]))

\* each step goes on from the table the step before has left, unless it raised
cleaning(d) ==
    LET Line38(r) == IF r.status # "ok" THEN r ELSE Ok(DropnaAll(r.df))
        Line36(r) == IF r.status # "ok" THEN r ELSE Line38(ToNumericColumn(r.df, T_rating))
        Line34(r) == IF r.status # "ok" THEN r ELSE Line36(ToNumericColumn(r.df, T_duration))
    IN Line34(DropnaSubset(RenameTitle(ReplaceNaN(NormalizeColumns(d))), columnas_necesarias))

----------------------------------------------------------------------------
(* Helpers of the reporting functions                                      *)

\* the orders in which the items of s numbered in S can follow each other
\* when sorted by their quantity val
RECURSIVE Orders(_, _, _)
Orders(s, S, ascending) ==
    IF S = {} THEN {<<>>}
    ELSE LET first == {k \in S : \A m \in S :
                          IF ascending THEN QuantityLeq(s[k].val, s[m].val)
                          ELSE QuantityLeq(s[m].val, s[k].val)}
         IN UNION {{<<s[k]>> \o rest : rest \in Orders(s, S \ {k}, ascending)} : k \in first}

\* a sort that ignores the requested direction and always sorts ascending
SortValues_ascending_only(s, ascending) ==
    LET known == SelectSeq(s, LAMBDA x : ~x.val.nan)
        nans == SelectSeq(s, LAMBDA x : x.val.nan)
    IN {o \o nans : o \in Orders(known, 1..Len(known), TRUE)}

\* sort_values(ascending=...) with the default kind="quicksort", which is not
\* stable: numpy promises no order among equal values, so every order of
\* the ties is an outcome.  The items whose quantity is NaN come last, in
\* their order of arrival.
SortValues(s, ascending) ==
    LET known == SelectSeq(s, LAMBDA x : ~x.val.nan)
        nans == SelectSeq(s, LAMBDA x : x.val.nan)
    IN {o \o nans : o \in Orders(known, 1..Len(known), ascending)}

\* head(n)
HeadRows(s, n) == SubSeq(s, 1, IF Len(s) < n THEN Len(s) ELSE n)

\* the order groupby(sort=True) gives its keys: numbers by value, texts as
\* Python compares them, numbers before texts
KeyLeq(a, b) ==
    IF a.k = "num" /\ b.k = "num" THEN QuantityLeq(CellQuantity(a), CellQuantity(b))
    ELSE IF a.k = "str" /\ b.k = "str" THEN TextLeq(a.s, b.s)
    ELSE a.k = "num"

\* the distinct keys of a groupby, sorted
RECURSIVE SortedKeys(_)
SortedKeys(S) ==
    IF S = {} THEN <<>>
    ELSE LET m == CHOOSE x \in S : \A y \in S : KeyLeq(x, y)
         IN <<m>> \o SortedKeys(S \ {m})

\* the distinct values of a sequence in order of first appearance
RECURSIVE FirstSeen(_)
FirstSeen(s) ==
    IF s = <<>> THEN <<>>
    ELSE LET t == FirstSeen(SubSeq(s, 1, Len(s) - 1))
         IN IF \E j \in 1..Len(t) : t[j] = s[Len(s)] THEN t ELSE Append(t, s[Len(s)])

\* lambda x: x.split(",")[0] if isinstance(x, str) else x
PrimaryGenre(c) == IF c.k = "str" THEN Str(SplitFirst(c.s)) ELSE c

\* the row of d labelled idx
RowAt(d, idx) == d.rows[CHOOSE r \in 1..Len(d.rows) : d.rows[r].idx = idx]

\* what a reporting function leaves: how it ended, the shared table, the charts shown
Result(status, d, data) == [status |-> status, df |-> d, data |-> data]

----------------------------------------------------------------------------------------------------------------------------------------
(* The reporting functions.  Each takes the shared table d and the number   *)
(* of its charts that get shown before a plotting call fails (all of them   *)
(* when none fails), and gives its possible results, one per outcome of the *)
(* sort it makes: the status it ends with, the shared table as it leaves it *)
(* and the data of the charts it has shown.  The calls into seaborn and     *)
(* matplotlib may raise (an empty table, no display); the functions catch   *)
(* nothing, so such a failure ends the function with the status             *)
(* RenderError.  A plotting call that names a column by a label that no     *)
(* column or several columns bear always fails.                             *)

TopN == 15
year_min == 2001
year_max == 2019

Shown(charts, shown) == SubSeq(charts, 1, shown)
RenderStatus(charts, shown) == IF shown = Len(charts) THEN "ok" ELSE "RenderError"

\* df.groupby(by)[of].mean(): one entry per distinct key, in key order; the
\* rows whose key is missing belong to no group
GroupMean(d, by, of) ==
    LET Groups(keys) ==
            [g \in 1..Len(keys) |->
                [key |-> keys[g],
                 val |-> Mean(Column(RowsWhere(d, LAMBDA row : Cell(d, row, by) = keys[g]), of))]]
    IN Groups(SortedKeys({c \in {Cell(d, d.rows[r], by) : r \in 1..Len(d.rows)} : ~IsNull(c)}))

\* the derived column written over the column genres as well
WithPrimaryGenre_overwriting(d) ==
    IF ~Unique(d, T_genres) THEN Raise("KeyError", d)
    ELSE Ok(SetColumn(SetColumn(d, T_genres,
                                [r \in 1..Len(d.rows) |-> PrimaryGenre(Cell(d, d.rows[r], T_genres))]),
                      T_generoprincipal,
                      [r \in 1..Len(d.rows) |-> PrimaryGenre(Cell(d, d.rows[r], T_genres))]))

\* df["generoprincipal"] = df["genres"].apply(lambda x: ... if isinstance(x, str) else x).
\* KeyError without a column genres.  Where several columns bear the label
\* genres, apply hands the lambda each of them whole, gets it back, and the
\* table of them is assigned: to as many columns generoprincipal, or ValueError.
WithPrimaryGenre(d) ==
    IF ~HasCol(d, T_genres) THEN Raise("KeyError", d)
    ELSE IF Unique(d, T_genres)
    THEN SetItem(d, T_generoprincipal,
                 [r \in 1..Len(d.rows) |-> PrimaryGenre(Cell(d, d.rows[r], T_genres))])
    ELSE IF Len(Positions(d, T_generoprincipal)) = Len(Positions(d, T_genres))
    THEN Ok(SetFrame(d, T_generoprincipal, Frame(d, T_genres)))
    ELSE Raise("ValueError", d)

\* df.groupby("generoprincipal")["rating"].mean().sort_values(ascending=False):
\* the outcomes of the sort
promedio_genero(d) == SortValues(GroupMean(d, T_generoprincipal, T_rating), FALSE)

\* groupby raises ValueError for a label several columns bear and KeyError
\* for a rating no column bears; with several columns rating the means are a
\* table, whose sort_values lacks its argument (TypeError)
rating_vs_genre(d, shown) ==
    LET Line48(r) ==
            IF r.status # "ok" THEN {Result(r.status, r.df, <<>>)}
            ELSE IF ~Unique(r.df, T_generoprincipal) THEN {Result("ValueError", r.df, <<>>)}
            ELSE IF ~HasCol(r.df, T_rating) THEN {Result("KeyError", r.df, <<>>)}
            ELSE IF ~Unique(r.df, T_rating) THEN {Result("TypeError", r.df, <<>>)}
            ELSE {Result(RenderStatus(<<p>>, shown), r.df, Shown(<<p>>, shown)) :
                    p \in promedio_genero(r.df)}
    IN Line48(WithPrimaryGenre(d))

rating_vs_duration(d, shown) ==
    LET Line61(charts) == {Result(RenderStatus(charts, shown), d, Shown(charts, shown))}
    IN IF \E name \in {T_duration, T_rating, T_genres} : ~Unique(d, name)
       THEN {Result("RenderError", d, <<>>)}
       ELSE Line61(<<[r \in 1..Len(d.rows) |->
                        [x |-> Cell(d, d.rows[r], T_duration),
                         y |-> Cell(d, d.rows[r], T_rating),
                         hue |-> Cell(d, d.rows[r], T_genres)]]>>)

\* the rows, by their labels, keyed by their rating for sort_values("rating")
ByRating(d) ==
    [r \in 1..Len(d.rows) |->
        [idx |-> d.rows[r].idx, val |-> CellQuantity(Cell(d, d.rows[r], T_rating))]]

\* the bar chart of a sorted selection: title and rating of each row, with its label
Bars(d, sel) ==
    [k \in 1..Len(sel) |->
        [idx |-> sel[k].idx,
         title |-> Cell(d, RowAt(d, sel[k].idx), T_title),
         rating |-> Cell(d, RowAt(d, sel[k].idx), T_rating)]]

\* head(15) taken one row too long
SortHead_off_by_one(d, ascending) ==
    {HeadRows(sorted, TopN + 1) : sorted \in SortValues(ByRating(d), ascending)}

\* df.sort_values("rating", ascending=...).head(15): the outcomes
SortHead(d, ascending) ==
    {HeadRows(sorted, TopN) : sorted \in SortValues(ByRating(d), ascending)}

\* the body rating_vs_show and rating_vs_show_2 share: sort_values raises
\* KeyError for a label no column bears and ValueError for one several bear
BarsOfHead(d, shown, ascending) ==
    IF ~HasCol(d, T_rating) THEN {Result("KeyError", d, <<>>)}
    ELSE IF ~Unique(d, T_rating) THEN {Result("ValueError", d, <<>>)}
    ELSE IF ~Unique(d, T_title) THEN {Result("RenderError", d, <<>>)}
    ELSE {Result(RenderStatus(<<Bars(d, sel)>>, shown), d, Shown(<<Bars(d, sel)>>, shown)) :
            sel \in SortHead(d, ascending)}

rating_vs_show(d, shown) == BarsOfHead(d, shown, FALSE)

rating_vs_show_2(d, shown) == BarsOfHead(d, shown, TRUE)

\* df[name].value_counts(): the distinct values, missing ones left out, in
\* order of first appearance, then sorted by descending count: the outcomes
\* of that sort
ValueCounts(d, name) ==
    LET Counts(col, keys) ==
            SortValues([g \in 1..Len(keys) |->
                          [key |-> keys[g],
                           val |-> Quantity(Cardinality({r \in 1..Len(col) : col[r] = keys[g]}), 1)]],
                       FALSE)
        Counted(col) == Counts(col, FirstSeen(col))
    IN Counted(SelectSeq(Column(d, name), LAMBDA c : ~IsNull(c)))

\* x.split(",") fails on a value that is no string
SplitFails(d) == \E r \in 1..Len(d.rows) : Cell(d, d.rows[r], T_genres).k # "str"

\* df["generoprincipal"] = df["genres"].apply(lambda x: x.split(",")[0])
WithSplitGenre(d) ==
    SetItem(d, T_generoprincipal,
            [r \in 1..Len(d.rows) |-> Str(SplitFirst(Cell(d, d.rows[r], T_genres).s))])

\* Where several columns bear the label genres, apply hands the lambda each
\* of them whole and x.split fails (AttributeError), but for a table without
\* rows, which apply copies without calling the lambda: line 114 then does
\* what line 46 does.  Where several columns bear the label generoprincipal,
\* df["generoprincipal"] of line 116 is a table, whose value_counts groups
\* by its labels (ValueError, as at line 48) before countplot is entered.
static_charts(d, shown) ==
    LET Line116(hist, r) ==
            IF r.status # "ok" THEN {Result(r.status, r.df, hist)}
            ELSE IF ~Unique(r.df, T_generoprincipal) THEN {Result("ValueError", r.df, hist)}
            ELSE {Result(RenderStatus(Append(hist, counts), shown), r.df,
                         Shown(Append(hist, counts), shown)) :
                    counts \in ValueCounts(r.df, T_generoprincipal)}
        Line114(hist) ==
            IF shown < Len(hist) THEN {Result("RenderError", d, Shown(hist, shown))}
            ELSE IF ~HasCol(d, T_genres) THEN {Result("KeyError", d, hist)}
            ELSE IF ~Unique(d, T_genres)
            THEN IF d.rows # <<>> THEN {Result("AttributeError", d, hist)}
                 ELSE Line116(hist, WithPrimaryGenre(d))
            ELSE IF SplitFails(d) THEN {Result("AttributeError", d, hist)}
            ELSE Line116(hist, WithSplitGenre(d))
    IN IF ~HasCol(d, T_rating) THEN {Result("KeyError", d, <<>>)}
       ELSE IF shown = 0 THEN {Result("RenderError", d, <<>>)}
       ELSE IF ~HasCol(d, T_duration) THEN {Result("KeyError", d, <<Item(d, T_rating)>>)}
       ELSE Line114(<<Item(d, T_rating), Item(d, T_duration)>>)

\* the four-digit run that ends the text instead of the one that starts it
ExtractYear_last(t) ==
    LET hits == {k \in 1..(Len(t) - 3) : AllDigits(SubSeq(t, k, k + 3))}
    IN IF hits = {} THEN NaN
       ELSE LET k == CHOOSE h \in hits : \A m \in hits : m <= h
            IN Str(SubSeq(t, k, k + 3))

\* str.extract(r'(\d{4})')[0]: the leftmost four digits in a row, or NaN
ExtractYear(t) ==
    LET hits == {k \in 1..(Len(t) - 3) : AllDigits(SubSeq(t, k, k + 3))}
    IN IF hits = {} THEN NaN
       ELSE LET k == CHOOSE h \in hits : \A m \in hits : h <= m
            IN Str(SubSeq(t, k, k + 3))

\* df['year_inicio'] = df['years'].astype(str).str.extract(r'(\d{4})')[0]
WithYearText(d) ==
    SetItem(d, T_year_inicio,
            [r \in 1..Len(d.rows) |-> ExtractYear(AsTypeStr(Cell(d, d.rows[r], T_years)))])

\* df['year_inicio'] = pd.to_numeric(df['year_inicio'], errors='coerce'),
\* where one column bears the label
WithYearInicio(d) ==
    SetColumn(d, T_year_inicio, ToNumericValues(Column(d, T_year_inicio)))

\* the upper bound taken exclusive
InYears_exclusive(c) ==
    /\ c.k = "num"
    /\ QuantityLeq(Quantity(year_min, 1), CellQuantity(c))
    /\ ~QuantityLeq(Quantity(year_max, 1), CellQuantity(c))

\* (year_inicio >= 2001) & (year_inicio <= 2019); a NaN compares false
InYears(c) ==
    /\ c.k = "num"
    /\ QuantityLeq(Quantity(year_min, 1), CellQuantity(c))
    /\ QuantityLeq(CellQuantity(c), Quantity(year_max, 1))

\* df[(df['year_inicio'] >= 2001) & (df['year_inicio'] <= 2019)]
YearSelection(d) == RowsWhere(d, LAMBDA row : InYears(Cell(d, row, T_year_inicio)))

\* df.groupby(['year_inicio', 'generoprincipal']).size().unstack(fill_value=0)
conteo(d) ==
    LET Matrix(present, ys, gs) ==
            [years |-> ys, genres |-> gs,
             count |-> [y \in 1..Len(ys) |-> [g \in 1..Len(gs) |->
                Cardinality({r \in 1..Len(present) :
                    /\ Cell(d, present[r], T_year_inicio) = ys[y]
                    /\ Cell(d, present[r], T_generoprincipal) = gs[g]})]]]
        Keys(present) ==
            Matrix(present,
                   SortedKeys({Cell(d, present[r], T_year_inicio) : r \in 1..Len(present)}),
                   SortedKeys({Cell(d, present[r], T_generoprincipal) : r \in 1..Len(present)}))
    IN Keys(SelectSeq(d.rows, LAMBDA row : ~IsNull(Cell(d, row, T_generoprincipal))))

\* df.groupby('year_inicio')['rating'].mean()
rating_por_ano(d) == GroupMean(d, T_year_inicio, T_rating)

\* KeyError without a column years; with several, df['years'] is a table,
\* which has no .str (AttributeError).  Line 131 writes the columns that bear
\* the label year_inicio; if several do, pd.to_numeric of line 133 is handed
\* a table (TypeError).  The selection of line 136 is a table of its
\* own: the primary genre of line 139 is not written to the shared table.
genre_vs_year(d, shown) ==
    LET Charts(d1, charts) == {Result(RenderStatus(charts, shown), d1, Shown(charts, shown))}
        Heat(sel) ==
            [rows |-> [k \in 1..Len(sel.rows) |-> [idx |-> sel.rows[k].idx]],
             conteo |-> conteo(sel)]
        Line142(d1, sel) ==
            IF ~Unique(sel, T_generoprincipal) THEN {Result("ValueError", d1, <<>>)}
            ELSE IF Unique(sel, T_rating) THEN Charts(d1, <<Heat(sel), rating_por_ano(sel)>>)
            ELSE IF shown = 0 THEN {Result("RenderError", d1, <<>>)}
            ELSE {Result(IF HasCol(sel, T_rating) THEN "RenderError" ELSE "KeyError",
                         d1, <<Heat(sel)>>)}
        Line139(d1, r) ==
            IF r.status # "ok" THEN {Result(r.status, d1, <<>>)} ELSE Line142(d1, r.df)
        Line136(d1) == Line139(d1, WithPrimaryGenre(YearSelection(d1)))
        Line133(r) ==
            IF r.status # "ok" THEN {Result(r.status, r.df, <<>>)}
            ELSE IF ~Unique(r.df, T_year_inicio) THEN {Result("TypeError", r.df, <<>>)}
            ELSE Line136(WithYearInicio(r.df))
    IN IF ~HasCol(d, T_years) THEN {Result("KeyError", d, <<>>)}
       ELSE IF ~Unique(d, T_years) THEN {Result("AttributeError", d, <<>>)}
       ELSE Line133(WithYearText(d))

----------------------------------------------------------------------------
(* The files the script reads.  A file is its header and its records, each *)
(* a sequence of fields (texts).                                           *)

MaxDirtyRows == 2
MaxSchemaRows == 1
MaxGenreRows == 3
MaxYearRows == 2
MaxNumericRows == 1
MaxTopRows == 16
MaxTies == 1
MaxFrameRows == 2
MaxDerivedRows == 3

Col(name, role) == [name |-> name, role |-> role]

\* the header of the file: labels with capitals and stray blanks
SchemaCsv ==
    <<Col(<<" ", "T", "i", "t", "l", "e">>, "title"),
      Col(<<"G", "e", "n", "r", "e", "s", " ">>, "genres"),
      Col(<<"E", "p", "i", "s", "o", "d", "e", "D", "u", "r", "a", "t", "i", "o", "n", "(",
          "i", "n", " ", "M", "i", "n", "u", "t", "e", "s", ")">>, "duration"),
      Col(<<"R", "a", "t", "i", "n", "g">>, "rating"),
      Col(<<"Y", "e", "a", "r", "s">>, "years")>>

\* the same labels between blanks of every kind
SchemaBlanks ==
    <<Col(<<"\t", "T", "i", "t", "l", "e", "\r">>, "title"),
      Col(<<"VT">> \o <<"G", "e", "n", "r", "e", "s">> \o <<"NBSP">>, "genres"),
      Col(<<"E", "p", "i", "s", "o", "d", "e", "D", "u", "r", "a", "t", "i", "o", "n", "(",
          "i", "n", " ", "M", "i", "n", "u", "t", "e", "s", ")", "\n">>, "duration"),
      Col(<<"\f", "R", "a", "t", "i", "n", "g">>, "rating"),
      Col(<<"NEL", "FS", "GS">> \o <<"Y", "e", "a", "r", "s">> \o <<"RS", "US">>, "years")>>

\* no column called title, one whose label contains it
SchemaShowTitle == <<Col(<<"S", "h", "o", "w", " ", "T", "i", "t", "l",
    "e">>, "title")>> \o SubSeq(SchemaCsv, 2, 5)

\* no column called title, two whose labels contain it
SchemaTwoTitles ==
    <<Col(<<"O", "r", "i", "g", "i", "n", "a", "l", " ", "T", "i", "t", "l",
        "e">>, "title"), Col(<<"S", "h", "o", "w", " ", "T", "i", "t", "l",
            "e">>, "other")>> \o SubSeq(SchemaCsv, 2, 5)

\* no column whose label contains title
SchemaNoTitle == <<Col(<<"N", "a", "m", "e">>, "title")>> \o SubSeq(SchemaCsv, 2, 5)

\* no column called rating
SchemaNoRating == SubSeq(SchemaCsv, 1, 3) \o <<Col(<<"S", "c", "o", "r",
    "e">>, "rating"), SchemaCsv[5]>>

\* no column called years
SchemaNoYears == SubSeq(SchemaCsv, 1, 4)

\* two labels that cleaning makes equal: two columns rating, two columns
\* of the duration, two columns that both get renamed to title, two columns
\* genres, two columns years
SchemaSameRating ==
    SubSeq(SchemaCsv, 1, 4) \o <<Col(<<"r", "a", "t", "i", "n", "g",
        " ">>, "other"), SchemaCsv[5]>>

SchemaSameDuration ==
    SubSeq(SchemaCsv, 1, 3) \o <<Col(<<"e", "p", "i", "s", "o", "d", "e", "d", "u", "r",
        "a", "t", "i", "o", "n", "(", "i", "n", " ", "m", "i", "n", "u", "t", "e", "s", ")",
            " ">>, "other")>>
    \o SubSeq(SchemaCsv, 4, 5)

SchemaSameTitle ==
    <<Col(<<"S", "h", "o", "w", " ", "T", "i", "t", "l", "e">>, "title"), Col(<<"s", "h",
        "o", "w", " ", "t", "i", "t", "l", "e", " ">>, "other")>> \o SubSeq(SchemaCsv, 2, 5)

SchemaSameGenres ==
    SubSeq(SchemaCsv, 1, 2) \o <<Col(<<"g", "e", "n", "r", "e",
        "s">>, "other")>> \o SubSeq(SchemaCsv, 3, 5)

SchemaSameYears == SchemaCsv \o <<Col(<<"y", "e", "a", "r", "s">>, "other")>>

\* no column whose label contains title, and two columns genres
SchemaNoTitleSameGenres ==
    <<Col(<<"N", "a", "m", "e">>, "title"), SchemaCsv[2], Col(<<"g", "e", "n", "r", "e",
        "s">>, "other")>> \o SubSeq(SchemaCsv, 3, 5)

\* no column called rating, and two columns that both get renamed to title
SchemaNoRatingSameTitle ==
    <<Col(<<"S", "h", "o", "w", " ", "T", "i", "t", "l", "e">>, "title"), Col(<<"s", "h",
        "o", "w", " ", "t", "i", "t", "l", "e", " ">>, "other")>>
    \o SubSeq(SchemaCsv, 2, 3) \o <<Col(<<"S", "c", "o", "r", "e">>, "rating"), SchemaCsv[5]>>

Schemas == {SchemaCsv, SchemaBlanks, SchemaShowTitle, SchemaTwoTitles, SchemaNoTitle,
            SchemaNoRating, SchemaNoYears, SchemaSameRating, SchemaSameDuration,
            SchemaSameTitle, SchemaSameGenres, SchemaSameYears,
            SchemaNoTitleSameGenres, SchemaNoRatingSameTitle}

\* two columns that bear the label of a column the reporting functions derive
SchemaSameGeneroPrincipal ==
    SchemaCsv \o <<Col(<<"G", "e", "n", "e", "r", "o", "P", "r", "i", "n", "c", "i", "p",
        "a", "l">>, "other"), Col(<<"g", "e", "n", "e", "r", "o", "p", "r", "i", "n", "c",
            "i", "p", "a", "l">>, "title")>>

SchemaSameYearInicio ==
    SchemaCsv \o <<Col(<<"Y", "e", "a", "r", "_", "I", "n", "i", "c", "i",
        "o">>, "other"), Col(<<"y", "e", "a", "r", "_", "i", "n", "i", "c", "i",
            "o">>, "title")>>

\* the file with the header of schema whose r-th record holds content[r]
File(schema, content) ==
    [header |-> [c \in 1..Len(schema) |-> schema[c].name],
     records |-> [r \in 1..Len(content) |->
                    [c \in 1..Len(schema) |-> content[r][schema[c].role]]]]

Files(schema, Rows, max) ==
    {File(schema, content) : content \in UNION {[1..n -> Rows] : n \in 0..max}}

RowA ==
    [title |-> <<"A">>, genres |-> <<"D", "r", "a", "m", "a", ",", "C", "r", "i", "m",
        "e">>, duration |-> <<"4", "5">>, rating |-> <<"8", ".", "5">>,
     years |-> <<"2", "0", "1", "0">>, other |-> <<"x">>]

RowB ==
    [title |-> <<"B">>, genres |-> <<"C", "o", "m", "e", "d", "y">>, duration |-> <<"2",
        "2">>, rating |-> <<"7", ".", "0">>,
     years |-> <<"2", "0", "1", "2">>, other |-> <<"y">>]

\* records with an empty field, a field read_csv takes for a missing value or
\* a text where a number is due
DirtyRows ==
    {RowA, RowB,
     [RowA EXCEPT !.rating = <<"N", "/", "A">>],
     [RowA EXCEPT !.rating = <<"u", "n", "r", "a", "t", "e", "d">>],
     [RowA EXCEPT !.duration = <<>>],
     [RowB EXCEPT !.genres = <<"N", "a", "N">>],
     [RowB EXCEPT !.title = <<>>],
     [RowB EXCEPT !.years = <<>>]}

SchemaRows ==
    {RowA, RowB, [RowA EXCEPT !.duration = <<"n", "/", "a">>], [RowB EXCEPT !.other = <<>>]}

Drama == <<"D", "r", "a", "m", "a">>
Comedy == <<"C", "o", "m", "e", "d", "y">>

GenreRows ==
    {[RowA EXCEPT !.genres = Drama \o <<",", "C", "r", "i", "m", "e">>, !.rating = <<"8",
        ".", "5">>],
     [RowA EXCEPT !.genres = Drama, !.rating = <<"7", ".", "0">>],
     [RowA EXCEPT !.genres = Comedy \o <<",", " ", "D", "r", "a", "m",
         "a">>, !.rating = <<"7", ".", "2", "5">>],
     [RowA EXCEPT !.genres = <<"S", "c", "i", "-", "F", "i", " ", "&", " ", "F", "a", "n",
         "t", "a", "s", "y">>, !.rating = <<"7", ".", "0">>]}

YearTexts ==
    {<<"2", "0", "0", "1", "-", "2", "0", "1", "5">>, <<"B", "e", "t", "w", "e", "e", "n",
        " ", "1", "9", "9", "9", " ", "a", "n", "d", " ", "2", "0", "0", "3">>, <<"u", "n",
            "k", "n", "o", "w", "n">>, <<"2", "0", "1", "9">>, <<"2", "0", "2",
                "0">>, <<"2", "0", "0", "0">>,
     <<"(", "2", "0", "1", ")", " ", "2", "0", "0", "5">>, <<"2", "0", "0", "1", "5">>}

YearRows ==
    {[RowA EXCEPT !.years = y] : y \in YearTexts} \cup
    {[RowB EXCEPT !.years = <<"2", "0", "1", "9">>]}

\* a genres column that holds numbers
NumericRows == {[RowA EXCEPT !.genres = <<"3", "0">>, !.rating = x] : x \in {<<"7", ".",
    "0">>, <<"8", ".", "5">>}}

\* long files: the ratings are all different but for MaxTies pairs at most,
\* the lowest ratings first among the equal ones
TopFiles ==
    {File(SchemaCsv, [r \in 1..n |->
            [RowA EXCEPT !.rating = NatText((19 * (r - 1)) % (n - t))]]) :
        n \in (MaxTies + 1)..MaxTopRows, t \in 0..MaxTies}

\* records for the files with those columns: one of them is dropped by
\* cleaning, so that the labels of the rows left need not be 0, 1, 2, ...
DerivedRows == {RowA, RowB, [RowA EXCEPT !.rating = <<"N", "/", "A">>]}

CsvFiles ==
    Files(SchemaCsv, DirtyRows, MaxDirtyRows)
    \cup Files(SchemaSameGeneroPrincipal, DerivedRows, MaxDerivedRows)
    \cup Files(SchemaSameYearInicio, DerivedRows, MaxDerivedRows)
    \cup UNION {Files(sch, SchemaRows, MaxSchemaRows) : sch \in Schemas}
    \cup Files(SchemaCsv, GenreRows, MaxGenreRows)
    \cup Files(SchemaCsv, YearRows, MaxYearRows)
    \cup Files(SchemaCsv, NumericRows, MaxNumericRows)
    \cup TopFiles

\* the tables pd.read_csv hands to the script
RawTables == {ReadCsv(file) : file \in CsvFiles}

----------------------------------------------------------------------------
(* The tables a caller can hand to cleaning: besides those read from a     *)
(* file, tables built in memory, whose columns may hold the text "NaN",    *)
(* None, pd.NA, and numbers next to texts.                                 *)

\* the table with the columns of schema whose r-th row holds content[r]
Table(schema, content) ==
    [columns |-> [c \in 1..Len(schema) |-> schema[c].name],
     rows |-> [r \in 1..Len(content) |->
        [idx |-> r - 1,
         cells |-> [c \in 1..Len(schema) |-> content[r][schema[c].role]]]]]

Tables(schema, Rows, max) ==
    {Table(schema, content) : content \in UNION {[1..n -> Rows] : n \in 0..max}}

FrameA ==
    [title |-> Str(<<"A">>), genres |-> Str(<<"D", "r", "a", "m", "a", ",", "C", "r", "i",
        "m", "e">>), duration |-> Int64(45),
     rating |-> Float64(85, 1), years |-> Str(<<"2", "0", "1", "0">>), other |-> Str(<<"x">>)]

FrameB ==
    [title |-> Str(<<"B">>), genres |-> Str(<<"C", "o", "m", "e", "d",
        "y">>), duration |-> Str(<<"2", "2">>),
     rating |-> Str(<<"7", ".", "0">>), years |-> Str(<<"2", "0", "1",
         "2">>), other |-> Str(<<"y">>)]

FrameRows ==
    {FrameA, FrameB,
     [FrameA EXCEPT !.rating = Str(<<"N", "/", "A">>)],
     [FrameA EXCEPT !.rating = NaN],
     [FrameA EXCEPT !.duration = Str(T_NaN)],
     [FrameB EXCEPT !.genres = Str(T_NaN)],
     [FrameB EXCEPT !.title = NoneValue],
     [FrameB EXCEPT !.years = NA],
     [FrameB EXCEPT !.rating = Str(<<" ", "7", ".", "2", "5", " ">>)],
     [FrameB EXCEPT !.duration = Str(<<"-", "5">>)],
     [FrameB EXCEPT !.rating = Str(<<"1", "e", "1">>)],
     [FrameB EXCEPT !.rating = Str(<<"I", "n", "f">>)],
     [FrameB EXCEPT !.duration = Str(<<"4", "5", " ", "m", "i", "n">>)]}

Frames ==
    {ReadCsv(file) : file \in Files(SchemaCsv, DirtyRows, MaxDirtyRows)}
    \cup Tables(SchemaCsv, FrameRows, MaxFrameRows)
    \cup UNION {Tables(sch, {FrameA, FrameB}, MaxSchemaRows) : sch \in Schemas}

----------------------------------------------------------------------------
(* The script: df = pd.read_csv(...); df = cleaning(df); run_analysis(df)  *)

funciones ==
    <<"rating_vs_genre", "rating_vs_duration", "rating_vs_show",
      "rating_vs_show_2", "genre_vs_year", "static_charts">>

\* how many charts each function shows
NCharts(f) ==
    IF f = "genre_vs_year" THEN 2 ELSE IF f = "static_charts" THEN 3 ELSE 1

Funcion(f, d, shown) ==
    CASE f = "rating_vs_genre" -> rating_vs_genre(d, shown)
      [] f = "rating_vs_duration" -> rating_vs_duration(d, shown)
      [] f = "rating_vs_show" -> rating_vs_show(d, shown)
      [] f = "rating_vs_show_2" -> rating_vs_show_2(d, shown)
      [] f = "genre_vs_year" -> genre_vs_year(d, shown)
      [] f = "static_charts" -> static_charts(d, shown)

NoChart == [by |-> "", data |-> <<>>]

\* a loop that goes on to the next function whatever the last one did
AfterCall_isolated(status, idx) ==
    IF idx = Len(funciones) THEN [pc |-> "done", i |-> idx]
    ELSE [pc |-> "run_analysis", i |-> idx + 1]

\* for funcion in funciones: funcion(df) -- an exception leaves the loop
AfterCall(status, idx) ==
    IF status # "ok" THEN [pc |-> "failed", i |-> idx]
    ELSE IF idx = Len(funciones) THEN [pc |-> "done", i |-> idx]
    ELSE [pc |-> "run_analysis", i |-> idx + 1]

\* the state in which cleaning is about to be called on the table t
Start(t) ==
    /\ raw = t
    /\ df = t
    /\ pc = "cleaning"
    /\ i = 0
    /\ error = "none"
    /\ calls = <<>>
    /\ chart = NoChart
    /\ cleaned = t

\* df = pd.read_csv("imdb_tvshows.csv.xls")
Init == \E t \in RawTables : Start(t)

\* df = cleaning(df)
Cleaning ==
    /\ pc = "cleaning"
    /\ LET Returned(r) ==
              IF r.status = "ok"
              THEN /\ df' = r.df
                   /\ cleaned' = r.df
                   /\ pc' = "run_analysis"
                   /\ i' = 1
                   /\ error' = error
              ELSE /\ pc' = "failed"
                   /\ error' = r.status
                   /\ UNCHANGED <<df, cleaned, i>>
       IN Returned(cleaning(df))
    /\ UNCHANGED <<calls, chart, raw>>

\* one turn of the loop of run_analysis: funciones[i](df)
\* f is the function whose turn it is
Turn(f) == pc = "run_analysis" /\ funciones[i] = f

\* the call of f ends with one of results
Call(f, results) ==
    /\ \E r \in results :
          /\ df' = r.df
          /\ chart' = [by |-> f, data |-> r.data]
          /\ calls' = Append(calls, f)
          /\ error' = IF r.status = "ok" THEN error ELSE r.status
          /\ pc' = AfterCall(r.status, i).pc
          /\ i' = AfterCall(r.status, i).i
    /\ UNCHANGED <<raw, cleaned>>

Call_rating_vs_genre ==
    /\ Turn("rating_vs_genre")
    /\ \E shown \in 0..NCharts("rating_vs_genre") :
          Call("rating_vs_genre", rating_vs_genre(df, shown))

Call_rating_vs_duration ==
    /\ Turn("rating_vs_duration")
    /\ \E shown \in 0..NCharts("rating_vs_duration") :
          Call("rating_vs_duration", rating_vs_duration(df, shown))

Call_rating_vs_show ==
    /\ Turn("rating_vs_show")
    /\ \E shown \in 0..NCharts("rating_vs_show") :
          Call("rating_vs_show", rating_vs_show(df, shown))

Call_rating_vs_show_2 ==
    /\ Turn("rating_vs_show_2")
    /\ \E shown \in 0..NCharts("rating_vs_show_2") :
          Call("rating_vs_show_2", rating_vs_show_2(df, shown))

Call_genre_vs_year ==
    /\ Turn("genre_vs_year")
    /\ \E shown \in 0..NCharts("genre_vs_year") :
          Call("genre_vs_year", genre_vs_year(df, shown))

Call_static_charts ==
    /\ Turn("static_charts")
    /\ \E shown \in 0..NCharts("static_charts") :
          Call("static_charts", static_charts(df, shown))

Next ==
    \/ Cleaning
    \/ Call_rating_vs_genre
    \/ Call_rating_vs_duration
    \/ Call_rating_vs_show
    \/ Call_rating_vs_show_2
    \/ Call_genre_vs_year
    \/ Call_static_charts

Spec == Init /\ [][Next]_vars

\* cleaning called on its own, with any table of Frames
InitCleaning == \E t \in Frames : Start(t)

NextCleaning == Cleaning

SpecCleaning == InitCleaning /\ [][NextCleaning]_vars

----------------------------------------------------------------------------
(* Properties of cleaning                                                  *)

\* cleaning(df) has returned a table (kept in cleaned)
CleaningReturned == pc \in {"run_analysis", "done"} \/ (pc = "failed" /\ calls # <<>>)

\* cleaning(df) has raised
CleaningRaised == pc = "failed" /\ calls = <<>>

\* the label of a column of the input as step 1 leaves it
Normalized(name) == Lower(Strip(name))

\* a value that is neither NaN, nor pd.NA, nor None
Present(c) == c.k \notin {"nan", "na", "none"}

\* C1: the table returned by cleaning has the columns title, genres,
\* episodeduration(in minutes) and rating, and no row of it holds a null in
\* any of the four.
C1_NoNullInRequired ==
    CleaningReturned =>
        \A name \in {T_title, T_genres, T_duration, T_rating} :
            /\ \E c \in 1..Len(cleaned.columns) : cleaned.columns[c] = name
            /\ \A r \in 1..Len(cleaned.rows) :
                 \A c \in 1..Len(cleaned.columns) :
                    cleaned.columns[c] = name => Present(cleaned.rows[r].cells[c])

\* cleaning kept a row and dropped one whose rating was the text N/A, which
\* the coercion to numbers had turned into a null
C1_Witness ==
    /\ CleaningReturned
    /\ Len(cleaned.rows) >= 1
    /\ \E r \in 1..Len(raw.rows), c \in 1..Len(raw.columns) :
          /\ Normalized(raw.columns[c]) = T_rating
          /\ raw.rows[r].cells[c] = Str(<<"N", "/", "A">>)
          /\ \A k \in 1..Len(cleaned.rows) : cleaned.rows[k].idx # raw.rows[r].idx

\* C2: cleaning is idempotent: cleaning applied to the table it returned
\* returns it again, with the same columns, the same rows in the same order
\* and the same values.
C2_Idempotent ==
    CleaningReturned =>
        LET again == cleaning(cleaned)
        IN /\ again.status = "ok"
           /\ again.df.columns = cleaned.columns
           /\ Len(again.df.rows) = Len(cleaned.rows)
           /\ \A r \in 1..Len(cleaned.rows) : again.df.rows[r] = cleaned.rows[r]

\* the first pass changed the labels, converted a text to a number and dropped a row
C2_Witness ==
    /\ CleaningReturned
    /\ cleaned.columns # raw.columns
    /\ 0 < Len(cleaned.rows) /\ Len(cleaned.rows) < Len(raw.rows)
    /\ \E r \in 1..Len(cleaned.rows), q \in 1..Len(raw.rows), c \in 1..Len(raw.columns) :
          /\ raw.rows[q].idx = cleaned.rows[r].idx
          /\ raw.rows[q].cells[c].k = "str"
          /\ cleaned.rows[r].cells[c].k = "num"

\* a row of the input that cleaning must keep: no null and no text NaN in any
\* column, and a duration and a rating that parse as numbers (dur and rat are
\* the positions of those two columns)
C3_Complete(row, dur, rat) ==
    /\ \A c \in 1..Len(row.cells) : Present(row.cells[c]) /\ row.cells[c] # Str(T_NaN)
    /\ ToNumeric(row.cells[dur]).k = "num"
    /\ ToNumeric(row.cells[rat]).k = "num"

\* the same number, be it held as an int or as a float
C3_SameNumber(a, b) ==
    a.k = "num" /\ b.k = "num" /\ a.n = b.n /\ a.e = b.e /\ a.inf = b.inf

\* C3: cleaning excludes rows and never repairs them: the rows it returns are
\* exactly the complete rows of the input, in their original order, each with
\* the values it had (duration and rating as the numbers they parse to); a
\* row whose rating is the text N/A is not among them, nor is a row whose only
\* null is under years.
C3_ExcludesNeverRepairs ==
    CleaningReturned =>
        LET dur == CHOOSE c \in 1..Len(raw.columns) : Normalized(raw.columns[c]) = T_duration
            rat == CHOOSE c \in 1..Len(raw.columns) : Normalized(raw.columns[c]) = T_rating
            kept == SelectSeq(raw.rows, LAMBDA row : C3_Complete(row, dur, rat))
        IN /\ Len(cleaned.rows) = Len(kept)
           /\ \A r \in 1..Len(kept) :
                /\ cleaned.rows[r].idx = kept[r].idx
                /\ \A c \in 1..Len(raw.columns) :
                     IF c \in {dur, rat}
                     THEN C3_SameNumber(cleaned.rows[r].cells[c], ToNumeric(kept[r].cells[c]))
                     ELSE cleaned.rows[r].cells[c] = kept[r].cells[c]
           /\ \A q \in 1..Len(raw.rows) :
                (\/ raw.rows[q].cells[rat] = Str(<<"N", "/", "A">>)
                 \/ \E c \in 1..Len(raw.columns) :
                       Normalized(raw.columns[c]) = T_years /\ ~Present(raw.rows[q].cells[c]))
                => \A r \in 1..Len(cleaned.rows) : cleaned.rows[r].idx # raw.rows[q].idx

\* a row whose only null is under years was dropped, and a later row was kept
C3_Witness ==
    /\ CleaningReturned
    /\ \E q \in 1..Len(raw.rows), c \in 1..Len(raw.columns) :
          /\ Normalized(raw.columns[c]) = T_years
          /\ ~Present(raw.rows[q].cells[c])
          /\ \A m \in 1..Len(raw.columns) : m # c => Present(raw.rows[q].cells[m])
          /\ \A r \in 1..Len(cleaned.rows) : cleaned.rows[r].idx # raw.rows[q].idx
          /\ \E r \in 1..Len(cleaned.rows) : cleaned.rows[r].idx > raw.rows[q].idx

\* the file has no column called title and none whose label contains "title",
\* or it lacks another required column
C4_RequiredMissing ==
    \/ \A c \in 1..Len(raw.columns) : ~Contains(Normalized(raw.columns[c]), T_title)
    \/ \E name \in {T_duration, T_genres, T_rating} :
          \A c \in 1..Len(raw.columns) : Normalized(raw.columns[c]) # name

\* the labels of the input as step 1 leaves them
C4_Labels == [c \in 1..Len(raw.columns) |-> Normalized(raw.columns[c])]

\* the label that stands for title at step 4: title itself, or without it
\* the first label that contains it
C4_TitleLabel ==
    IF \/ \E c \in 1..Len(C4_Labels) : C4_Labels[c] = T_title
       \/ \A c \in 1..Len(C4_Labels) : ~Contains(C4_Labels[c], T_title)
    THEN T_title
    ELSE C4_Labels[CHOOSE c \in 1..Len(C4_Labels) :
            /\ Contains(C4_Labels[c], T_title)
            /\ \A m \in 1..(c - 1) : ~Contains(C4_Labels[m], T_title)]

\* several columns stand for one of the required columns
C4_RequiredRepeated ==
    \E name \in {C4_TitleLabel, T_duration, T_genres, T_rating} :
        Cardinality({c \in 1..Len(C4_Labels) : C4_Labels[c] = name}) >= 2

\* C4 as claimed: when a required column never materializes, cleaning raises
\* no error and returns an empty table.
C4_Original_SilentEmpty ==
    (pc # "cleaning" /\ C4_RequiredMissing) =>
        (~CleaningRaised /\ error = "none" /\ cleaned.rows = <<>>)

\* C4, amended: when a required column never materializes, the null drop over
\* the required columns raises: KeyError, or IndexError if several columns
\* stand for another required column.  cleaning returns no table, the table
\* read from the file is left as it was and no reporting function runs.
C4_MissingColumnRaises ==
    (pc # "cleaning" /\ C4_RequiredMissing) =>
        /\ CleaningRaised
        /\ error = (IF C4_RequiredRepeated THEN "IndexError" ELSE "KeyError")
        /\ df = raw
        /\ chart = NoChart

\* cleaning has run on a file with rows and no title-like column
C4_Witness ==
    /\ pc # "cleaning"
    /\ Len(raw.rows) > 0
    /\ \A c \in 1..Len(raw.columns) : ~Contains(Normalized(raw.columns[c]), T_title)

----------------------------------------------------------------------------
(* Properties of the reporting functions                                   *)

\* the chart of function f is on screen
Charted(f) == chart.by = f /\ Len(chart.data) >= 1

\* the cell of row under the column labelled name of the shared table
Value(row, name) ==
    row.cells[CHOOSE c \in 1..Len(df.columns) : df.columns[c] = name]

\* a <= b for two finite numbers
NumberLeq(a, b) == a.n * Pow10(b.e) <= b.n * Pow10(a.e)

\* C5: the rows charted by rating_vs_show are min(15, number of records) rows
\* of the table, each taken once, in non-increasing order of rating; those of
\* rating_vs_show_2 the same in non-decreasing order.
C5_TopBottom15 ==
    (Charted("rating_vs_show") \/ Charted("rating_vs_show_2")) =>
        LET bars == chart.data[1]
        IN /\ Len(bars) = (IF Len(df.rows) < 15 THEN Len(df.rows) ELSE 15)
           /\ \A k \in 1..Len(bars) :
                \E r \in 1..Len(df.rows) :
                    /\ df.rows[r].idx = bars[k].idx
                    /\ Value(df.rows[r], T_title) = bars[k].title
                    /\ Value(df.rows[r], T_rating) = bars[k].rating
           /\ \A k, m \in 1..Len(bars) : k # m => bars[k].idx # bars[m].idx
           /\ \A k \in 1..(Len(bars) - 1) :
                IF chart.by = "rating_vs_show"
                THEN NumberLeq(bars[k + 1].rating, bars[k].rating)
                ELSE NumberLeq(bars[k].rating, bars[k + 1].rating)

\* the best 15 of more than 15 records, where the 15th and the record left
\* out have the same rating
C5_Witness ==
    /\ Charted("rating_vs_show")
    /\ Len(df.rows) > 15
    /\ \E r \in 1..Len(df.rows) :
          /\ Value(df.rows[r], T_rating) = chart.data[1][15].rating
          /\ \A k \in 1..15 : chart.data[1][k].idx # df.rows[r].idx
    /\ chart.data[1][1].rating # chart.data[1][15].rating

\* a year from 2001 to 2019
C6_InRange(c) == c.k = "num" /\ c.inf = 0 /\ c.e = 0 /\ 2001 <= c.n /\ c.n <= 2019

\* C6: the rows that reach the count matrix and the mean-rating series of
\* genre_vs_year are exactly the rows of the table whose year_inicio is a
\* year from 2001 to 2019, both included; a row with no year is not among them.
C6_YearRange ==
    Charted("genre_vs_year") =>
        LET sel == chart.data[1].rows
            mat == chart.data[1].conteo
        IN /\ \A k \in 1..Len(sel) :
                \E r \in 1..Len(df.rows) :
                    /\ df.rows[r].idx = sel[k].idx
                    /\ C6_InRange(Value(df.rows[r], T_year_inicio))
           /\ \A r \in 1..Len(df.rows) :
                C6_InRange(Value(df.rows[r], T_year_inicio)) =>
                    \E k \in 1..Len(sel) : sel[k].idx = df.rows[r].idx
           /\ \A y \in 1..Len(mat.years) : C6_InRange(mat.years[y])
           /\ Len(chart.data) = 2 =>
                \A y \in 1..Len(chart.data[2]) : C6_InRange(chart.data[2][y].key)

\* a row of 2019 was kept while a row with another or no year was left out
C6_Witness ==
    /\ Charted("genre_vs_year")
    /\ \E k \in 1..Len(chart.data[1].rows) :
          \E r \in 1..Len(df.rows) :
             /\ df.rows[r].idx = chart.data[1].rows[k].idx
             /\ Value(df.rows[r], T_year_inicio).n = 2019
    /\ Len(chart.data[1].rows) < Len(df.rows)

\* the number written by the four decimal digits of t from position k on
C7_FourDigits(t, k) ==
    1000 * DigitVal(t[k]) + 100 * DigitVal(t[k + 1]) + 10 * DigitVal(t[k + 2]) + DigitVal(t[k + 3])

\* the cell c holds the whole number x
C7_Holds(c, x) == c.k = "num" /\ c.inf = 0 /\ c.e = 0 /\ c.n = x

\* genre_vs_year has derived year_inicio from the one column years
C7_Extracted ==
    /\ chart.by = "genre_vs_year"
    /\ error \notin {"KeyError", "AttributeError", "TypeError"}

\* C7: year_inicio is the integer written by the first run of four digits of
\* the text of years, and null when the text has no such run; "2001-2015"
\* gives 2001, "Between 1999 and 2003" gives 1999, "unknown" gives null.
C7_ExtractYear ==
    C7_Extracted =>
        \A r \in 1..Len(df.rows) :
            LET t == AsTypeStr(Value(df.rows[r], T_years))
                year == Value(df.rows[r], T_year_inicio)
                runs == {k \in 1..(Len(t) - 3) : \A m \in 0..3 : IsDigit(t[k + m])}
            IN /\ runs = {} => ~Present(year)
               /\ runs # {} =>
                    C7_Holds(year, C7_FourDigits(t, CHOOSE k \in runs : \A m \in runs : k <= m))
               /\ t = <<"2", "0", "0", "1", "-", "2", "0", "1", "5">> => C7_Holds(year, 2001)
               /\ t = <<"B", "e", "t", "w", "e", "e", "n", " ", "1", "9", "9", "9", " ",
                   "a", "n", "d", " ", "2", "0", "0", "3">> => C7_Holds(year, 1999)
               /\ t = <<"u", "n", "k", "n", "o", "w", "n">> => ~Present(year)

\* genre_vs_year has run over "Between 1999 and 2003" and over "unknown"
C7_Witness ==
    /\ C7_Extracted
    /\ \E r, q \in 1..Len(df.rows) :
          /\ Value(df.rows[r], T_years) = Str(<<"B", "e", "t", "w", "e", "e", "n", " ", "1",
              "9", "9", "9", " ", "a", "n", "d", " ", "2", "0", "0", "3">>)
          /\ Value(df.rows[r], T_year_inicio).n = 1999
          /\ Value(df.rows[q], T_years) = Str(<<"u", "n", "k", "n", "o", "w", "n">>)
          /\ ~Present(Value(df.rows[q], T_year_inicio))

\* t is the text of genres before its first comma
C8_IsPrimary(t, genres) ==
    /\ Len(t) <= Len(genres)
    /\ \A k \in 1..Len(t) : t[k] = genres[k] /\ t[k] # ","
    /\ Len(t) < Len(genres) => genres[Len(t) + 1] = ","

\* the sum of the numbers of s, in units of 10^-scale
RECURSIVE C8_Sum(_, _)
C8_Sum(s, scale) ==
    IF s = <<>> THEN 0 ELSE s[1].n * Pow10(scale - s[1].e) + C8_Sum(Tail(s), scale)

\* the decimals of the ratings of the table
C8_Scale == MaxScale(Column(df, T_rating))

\* the quantity v is the number x / 10^scale
C8_Is(v, x, scale) == ~v.nan /\ v.inf = 0 /\ v.p * Pow10(scale) = x * v.q

\* C8: rating_vs_genre charts one entry per distinct primary genre (the text
\* of genres before the first comma), holding the arithmetic mean of the
\* ratings of exactly the rows of that primary genre, the entries in
\* non-increasing order of mean; rows A (Drama,Crime; 8.5) and B (Comedy; 7.0)
\* give (Drama, 8.5), (Comedy, 7.0).
C8_MeanByPrimaryGenre ==
    Charted("rating_vs_genre") =>
        LET e == chart.data[1]
            Members(t) == SelectSeq(df.rows, LAMBDA row :
                             /\ Value(row, T_genres).k = "str"
                             /\ C8_IsPrimary(t, Value(row, T_genres).s))
            Ratings(t) == [r \in 1..Len(Members(t)) |-> Value(Members(t)[r], T_rating)]
        IN /\ \A k, m \in 1..Len(e) : k # m => e[k].key # e[m].key
           /\ \A r \in 1..Len(df.rows) :
                Value(df.rows[r], T_genres).k = "str" =>
                    \E k \in 1..Len(e) :
                        /\ e[k].key.k = "str"
                        /\ C8_IsPrimary(e[k].key.s, Value(df.rows[r], T_genres).s)
           /\ \A k \in 1..Len(e) :
                e[k].key.k = "str" =>
                    /\ Members(e[k].key.s) # <<>>
                    \* mean * count = sum, both in units of 10^-C8_Scale
                    /\ ~e[k].val.nan /\ e[k].val.inf = 0
                    /\ e[k].val.p * Len(Members(e[k].key.s)) * Pow10(C8_Scale)
                          = C8_Sum(Ratings(e[k].key.s), C8_Scale) * e[k].val.q
           /\ \A k \in 1..(Len(e) - 1) :
                e[k].val.p * e[k + 1].val.q >= e[k + 1].val.p * e[k].val.q
           /\ cleaned.rows = cleaning(ReadCsv(File(SchemaCsv, <<RowA, RowB>>))).df.rows =>
                /\ Len(e) = 2
                /\ e[1].key = Str(Drama) /\ C8_Is(e[1].val, 85, 1)
                /\ e[2].key = Str(Comedy) /\ C8_Is(e[2].val, 70, 1)

\* two rows share a primary genre, with different ratings, and another genre
\* has a lower mean
C8_Witness ==
    /\ Charted("rating_vs_genre")
    /\ Len(chart.data[1]) >= 2
    /\ C8_Is(chart.data[1][1].val, 775, 2)
    /\ \E r, q \in 1..Len(df.rows) :
          /\ Value(df.rows[r], T_genres) = Str(Drama \o <<",", "C", "r", "i", "m", "e">>)
          /\ Value(df.rows[q], T_genres) = Str(Drama)
    /\ \E k \in 2..Len(chart.data[1]) : ~C8_Is(chart.data[1][k].val, 775, 2)

----------------------------------------------------------------------------
(* Properties of run_analysis                                              *)

\* the fixed order of the six reporting functions
C9_Order ==
    <<"rating_vs_genre", "rating_vs_duration", "rating_vs_show",
      "rating_vs_show_2", "genre_vs_year", "static_charts">>

\* C9: run_analysis invokes the six reporting functions once each in the
\* fixed order, each after the previous one has returned; once one of them has
\* failed no other is invoked, and a run that completes has invoked all six
\* without a failure.
C9_FixedOrderFatalFailure ==
    /\ [](/\ Len(calls) <= 6
          /\ \A k \in 1..Len(calls) : calls[k] = C9_Order[k]
          /\ pc = "done" => (calls = C9_Order /\ error = "none")
          /\ (pc = "run_analysis" /\ calls # <<>>) => error = "none")
    /\ [][error # "none" => calls' = calls]_vars

\* genre_vs_year failed on a table without the column years, after the four
\* functions before it and before static_charts
C9_Witness ==
    /\ pc = "failed"
    /\ error = "KeyError"
    /\ calls = SubSeq(C9_Order, 1, 5)

\* the labels the reporting functions may add to the shared table
C10_Derived == {T_generoprincipal, T_year_inicio}

\* C10: the reporting functions do not disturb each other: after any number of
\* them the shared table has the rows cleaning returned, in the same order,
\* with the same value in every column cleaning produced (only the derived
\* columns generoprincipal and year_inicio are added or overwritten), and what
\* a function has charted is what it charts when run alone on the table
\* cleaning returned.
C10_Independent ==
    CleaningReturned =>
        /\ Len(df.rows) = Len(cleaned.rows)
        /\ Len(df.columns) >= Len(cleaned.columns)
        /\ \A c \in 1..Len(df.columns) :
             IF c <= Len(cleaned.columns)
             THEN df.columns[c] = cleaned.columns[c]
             ELSE df.columns[c] \in C10_Derived
        /\ \A r \in 1..Len(cleaned.rows) :
             /\ df.rows[r].idx = cleaned.rows[r].idx
             /\ \A c \in 1..Len(cleaned.columns) :
                  cleaned.columns[c] \notin C10_Derived =>
                      df.rows[r].cells[c] = cleaned.rows[r].cells[c]
        /\ chart.by # "" =>
             \E alone \in Funcion(chart.by, cleaned, Len(chart.data)) :
                chart.data = alone.data

\* the whole run is over, both derived columns were added to a table of
\* several rows, and the last function has charted
C10_Witness ==
    /\ pc = "done"
    /\ Len(cleaned.rows) >= 2
    /\ Len(df.columns) = Len(cleaned.columns) + 2
    /\ Charted("static_charts")

====
